---- MODULE Spec2Model ----
(***************************************************************************)
(* Model of sv/gen_pads.py: parse_line turns one Verilog port declaration  *)
(* into (is_output, wire_count, bus_name); gen_pads turns a list of lines  *)
(* into pad instantiation strings.  Strings are TLA+ strings, handled one  *)
(* character at a time as the Python code handles them.                    *)
(***************************************************************************)
EXTENDS Integers, Sequences, FiniteSets, TLC

VARIABLES known_substitutions, pc, io_lines, idx, pad_lines, descs, prompts,
          asked, err, calls

vars == <<known_substitutions, pc, io_lines, idx, pad_lines, descs, prompts,
          asked, err, calls>>

(***************************************************************************)
(* Bounds of the model.                                                    *)
(***************************************************************************)
\* longest io_lines list handed to gen_pads
MaxLines == 2
\* number of gen_pads calls made in one process
MaxCalls == 2

(***************************************************************************)
(* Python string primitives.                                               *)
(***************************************************************************)
Chr(s, i) == SubSeq(s, i, i)

\* pat in s
Contains(s, pat) ==
    \E i \in 1..(Len(s) - Len(pat) + 1) : SubSeq(s, i, i + Len(pat) - 1) = pat

IsSpace(c) == c \in {" ", "\t"}

RECURSIVE LStrip(_)
LStrip(s) ==
    IF Len(s) > 0 /\ IsSpace(Chr(s, 1)) THEN LStrip(SubSeq(s, 2, Len(s))) ELSE s

RECURSIVE RStrip(_)
RStrip(s) ==
    IF Len(s) > 0 /\ IsSpace(Chr(s, Len(s)))
    THEN RStrip(SubSeq(s, 1, Len(s) - 1)) ELSE s

\* str.strip()
Strip(s) == RStrip(LStrip(s))

\* length of the leading run of non-whitespace characters
RECURSIVE WordLen(_)
WordLen(s) ==
    IF Len(s) = 0 \/ IsSpace(Chr(s, 1)) THEN 0
    ELSE 1 + WordLen(SubSeq(s, 2, Len(s)))

\* str.split(): the whitespace-separated words, no empty ones
RECURSIVE Split(_)
Split(s) ==
    LET t == LStrip(s)
        n == WordLen(t)
    IN  IF Len(t) = 0 THEN << >>
        ELSE <<SubSeq(t, 1, n)>> \o Split(SubSeq(t, n + 1, Len(t)))

\* length of the leading run of characters other than sep
RECURSIVE FieldLen(_, _)
FieldLen(s, sep) ==
    IF Len(s) = 0 \/ Chr(s, 1) = sep THEN 0
    ELSE 1 + FieldLen(SubSeq(s, 2, Len(s)), sep)

\* str.split(sep): the fields between separators, empty ones kept
RECURSIVE SplitOn(_, _)
SplitOn(s, sep) ==
    LET n == FieldLen(s, sep)
    IN  IF n = Len(s) THEN <<s>>
        ELSE <<SubSeq(s, 1, n)>> \o SplitOn(SubSeq(s, n + 2, Len(s)), sep)

\* s[1:-1]
Slice1(s) == SubSeq(s, 2, Len(s) - 1)

DigitChars == "0123456789"

AlnumChars ==
    "abcdefghijklmnopqrstuvwxyzABCDEFGHIJKLMNOPQRSTUVWXYZ0123456789"

IsDigit(c) == Len(c) = 1 /\ Contains(DigitChars, c)

\* c.isalnum()
IsAlnum(c) == Len(c) = 1 /\ Contains(AlnumChars, c)

DigitVal(c) == CHOOSE d \in 0..9 : Chr(DigitChars, d + 1) = c

\* value of a string of digits and underscores, the underscores ignored
RECURSIVE DigitsVal(_)
DigitsVal(s) ==
    IF Len(s) = 0 THEN 0
    ELSE IF Chr(s, Len(s)) = "_" THEN DigitsVal(SubSeq(s, 1, Len(s) - 1))
    ELSE 10 * DigitsVal(SubSeq(s, 1, Len(s) - 1)) + DigitVal(Chr(s, Len(s)))

\* int(s): surrounding whitespace dropped, an optional sign, then digits with
\* single underscores allowed between them; anything else is a ValueError
ParseInt(s) ==
    LET t == Strip(s)
        signed == Len(t) > 0 /\ Chr(t, 1) \in {"+", "-"}
        body == IF signed THEN SubSeq(t, 2, Len(t)) ELSE t
        ok == /\ Len(body) > 0
              /\ IsDigit(Chr(body, 1))
              /\ IsDigit(Chr(body, Len(body)))
              /\ \A i \in 1..Len(body) :
                    IsDigit(Chr(body, i)) \/ Chr(body, i) = "_"
              /\ ~Contains(body, "__")
    IN  IF ~ok THEN [ok |-> FALSE, val |-> 0]
        ELSE [ok |-> TRUE,
              val |-> IF signed /\ Chr(t, 1) = "-" THEN 0 - DigitsVal(body)
                      ELSE DigitsVal(body)]

\* str(n) for n >= 0
RECURSIVE Str(_)
Str(n) ==
    IF n < 10 THEN Chr(DigitChars, n + 1)
    ELSE Str(n \div 10) \o Chr(DigitChars, (n % 10) + 1)

\* f'{n:03}' for n >= 0
Fmt03(n) ==
    IF n < 10 THEN "00" \o Str(n)
    ELSE IF n < 100 THEN "0" \o Str(n)
    ELSE Str(n)

(***************************************************************************)
(* parse_line                                                              *)
(***************************************************************************)
TypeStrs ==
    {"reg", "wire", "integer", "real", "time", "realtime", "logic", "bit",
     "byte", "shortint", "int", "longint", "shortreal"}

\* ''.join([c for c in token if c.isalnum() or c == '_'])
RECURSIVE FilterName(_)
FilterName(token) ==
    IF Len(token) = 0 THEN ""
    ELSE LET c == Chr(token, 1)
             rest == FilterName(SubSeq(token, 2, Len(token)))
         IN  IF IsAlnum(c) \/ c = "_" THEN c \o rest ELSE rest

(***************************************************************************)
(* Inputs                                                                  *)
(***************************************************************************)
\* Declaration lines handed to gen_pads
Lines ==
    {"input  logic clk;",
     "output logic [1:0] HTRANS;",
     "output logic [P.AHBW-1:0] HWDATA;",
     "",
     "        ",
     "logic sda;",
     "input logic [0:1] rev;",
     "input logic [2:0]",
     "output [N-1:0] [2:1] mem;",
     "output logic [W] q;"}

\* What the user may type at a prompt
Answers == {"1", "2", "no"}

RECURSIVE SeqsUpTo(_, _)
SeqsUpTo(S, n) ==
    IF n = 0 THEN {<< >>}
    ELSE LET shorter == SeqsUpTo(S, n - 1)
         IN  shorter \cup {Append(s, x) : s \in {t \in shorter : Len(t) = n - 1}, x \in S}

LineLists == SeqsUpTo(Lines, MaxLines)

\* line.strip().split(), tabulated over the lines of the model
TokensOf == [l \in Lines |-> Split(Strip(l))]

AllTokens == UNION {{TokensOf[l][i] : i \in 1..Len(TokensOf[l])} : l \in Lines}

\* The tests and conversions parse_line applies to a token, tabulated over
\* the tokens of the model
IsTypeStr == [t \in AllTokens |-> \E typestr \in TypeStrs : typestr = Strip(t)]

HasOutput == [t \in AllTokens |-> Contains(t, "output")]

HasBracket == [t \in AllTokens |-> Contains(t, "[")]

Filtered == [t \in AllTokens |-> FilterName(t)]

\* token.strip()[1:-1].split(':')
RangeParts == [t \in AllTokens |-> SplitOn(Slice1(Strip(t)), ":")]

\* int(n) and int(m) for a token with two parts
RangeInts ==
    [t \in AllTokens |->
        IF Len(RangeParts[t]) = 2
        THEN <<ParseInt(RangeParts[t][1]), ParseInt(RangeParts[t][2])>>
        ELSE << >>]

AnswerInts == [a \in Answers |-> ParseInt(a)]

(***************************************************************************)
(* parse_line: the cache, the prompt and the loop over the tokens          *)
(***************************************************************************)
InCacheNever(token, subs) == FALSE

\* token in known_substitutions.keys()
InCache(token, subs) == token \in DOMAIN subs

StoreOnly(subs, token, wire_count) == (token :> wire_count)

\* known_substitutions[token] = wire_count
Store(subs, token, wire_count) == (token :> wire_count) @@ subs

AnswerWidthDefault(answer) ==
    IF AnswerInts[answer].ok THEN AnswerInts[answer] ELSE [ok |-> TRUE, val |-> 1]

\* int(input(...)) applied to the text the user typed
AnswerWidth(answer) == AnswerInts[answer]

\* The prompt handed to input()
PromptText(token) ==
    "Could not parse \"[" \o token \o "]\". How many wires is that? "

\* The locals of parse_line at entry, with the module's cache and the
\* bookkeeping of what happened during the call.
ParseStart(subs) ==
    [raised |-> FALSE, err |-> "", is_output |-> FALSE, wire_count |-> 1,
     bus_name |-> "none", subs |-> subs, prompts |-> << >>]

\* The '[' branch of the loop body
RangeToken(token, st, answers) ==
    LET parts == RangeParts[token]
    IN  IF Len(parts) # 2
        THEN [st EXCEPT !.raised = TRUE, !.err = "unpack"]
        ELSE
          LET n == RangeInts[token][1]
              m == RangeInts[token][2]
          IN  IF n.ok /\ m.ok
              THEN [st EXCEPT !.wire_count = n.val + 1 - m.val]
              ELSE IF InCache(token, st.subs)
              THEN [st EXCEPT !.wire_count = st.subs[token]]
              ELSE
                LET answer == answers[Len(st.prompts) + 1]
                    a == AnswerWidth(answer)
                    log == Append(st.prompts,
                                  [token |-> token, answer |-> answer,
                                   prompt |-> PromptText(token)])
                IN  IF a.ok
                    THEN [st EXCEPT !.wire_count = a.val,
                                    !.subs = Store(st.subs, token, a.val),
                                    !.prompts = log]
                    ELSE [st EXCEPT !.raised = TRUE, !.err = "answer",
                                    !.prompts = log]

\* One pass of the loop over the tokens
ParseToken(token, st, answers) ==
    IF IsTypeStr[token] THEN st
    ELSE IF HasOutput[token] THEN [st EXCEPT !.is_output = TRUE]
    ELSE IF HasBracket[token] THEN RangeToken(token, st, answers)
    ELSE [st EXCEPT !.bus_name = Filtered[token]]

RECURSIVE ParseTokens(_, _, _)
ParseTokens(tokens, st, answers) ==
    IF tokens = << >> \/ st.raised THEN st
    ELSE ParseTokens(Tail(tokens), ParseToken(Head(tokens), st, answers), answers)

\* parse_line(line), with the cache it starts from and the answers the user
\* would type at each prompt
ParseLine(line, subs, answers) ==
    ParseTokens(TokensOf[line], ParseStart(subs), answers)

(***************************************************************************)
(* Pad strings                                                             *)
(***************************************************************************)
\* "["+str(bus)+"]" if bus else ""
BusSuffix(bus) == IF bus # 0 THEN "[" \o Str(bus) \o "]" ELSE ""

gen_input_pad(pin_num, wire_name, bus) ==
    "PADIN  p" \o Fmt03(pin_num) \o "(.DI(" \o wire_name \o "_i"
        \o BusSuffix(bus) \o "), .PAD(" \o wire_name \o BusSuffix(bus) \o "));"

gen_output_pad(pin_num, wire_name, bus) ==
    "PADOUT p" \o Fmt03(pin_num) \o "(.DO(" \o wire_name \o "_o"
        \o BusSuffix(bus) \o "), .PAD(" \o wire_name \o BusSuffix(bus) \o "));"

\* pad_generator = gen_output_pad if is_output else gen_input_pad
pad_generator(is_output, pin_num, wire_name, bus) ==
    IF is_output THEN gen_output_pad(pin_num, wire_name, bus)
    ELSE gen_input_pad(pin_num, wire_name, bus)

PinNumFromOne(lines) == Len(lines) + 1

\* len(pad_lines), the pin number given to the next pad
PinNum(lines) == Len(lines)

\* for i in range(wire_count): pad_lines.append(pad_generator(len(pad_lines), name, i))
RECURSIVE AppendBus(_, _, _, _, _)
AppendBus(lines, is_output, wire_count, name, i) ==
    IF i >= wire_count THEN lines
    ELSE AppendBus(Append(lines, pad_generator(is_output, PinNum(lines), name, i)),
                   is_output, wire_count, name, i + 1)

\* The body of gen_pads' loop after parse_line has returned
AppendPads(lines, is_output, wire_count, name) ==
    IF wire_count = 1
    THEN Append(lines, pad_generator(is_output, PinNum(lines), name, 0))
    ELSE AppendBus(lines, is_output, wire_count, name, 0)

\* The tokens of a line that reach the '[' branch of parse_line
RangeTokens(line) ==
    SelectSeq(TokensOf[line],
              LAMBDA t : ~IsTypeStr[t] /\ ~HasOutput[t] /\ HasBracket[t])

RECURSIVE MaxOf(_)
MaxOf(S) ==
    IF S = {} THEN 0
    ELSE LET x == CHOOSE y \in S : TRUE
             r == MaxOf(S \ {x})
         IN  IF x > r THEN x ELSE r

\* The range tokens of a line that int() rejects: each can cause one prompt
Unparsable(line) ==
    SelectSeq(RangeTokens(line),
              LAMBDA t : /\ Len(RangeParts[t]) = 2
                         /\ ~(RangeInts[t][1].ok /\ RangeInts[t][2].ok))

\* The most prompts one line can cause
MaxAsk == MaxOf({Len(Unparsable(l)) : l \in Lines})

AnswerSeqs == [1..MaxAsk -> Answers]

RangeTokenTexts == UNION {{Unparsable(l)[i] : i \in 1..Len(Unparsable(l))} : l \in Lines}

(***************************************************************************)
(* The process: the module is loaded, then gen_pads is called.             *)
(***************************************************************************)
Init ==
    /\ known_substitutions = << >>
    /\ pc = "loaded"
    /\ io_lines = << >>
    /\ idx = 0
    /\ pad_lines = << >>
    /\ descs = << >>
    /\ prompts = << >>
    /\ asked = [t \in RangeTokenTexts |-> 0]
    /\ err = ""
    /\ calls = 0

\* How often token t was put to input() during one parse_line call
Count(log, t) == Cardinality({i \in DOMAIN log : log[i].token = t})

\* gen_pads(io_lines) is entered: pad_lines = []
GenPadsCall ==
    /\ pc = "loaded"
    /\ calls < MaxCalls
    /\ \E lines \in LineLists : io_lines' = lines
    /\ pc' = "running"
    /\ idx' = 0
    /\ pad_lines' = << >>
    /\ descs' = << >>
    /\ prompts' = << >>
    /\ err' = ""
    /\ calls' = calls + 1
    /\ UNCHANGED <<known_substitutions, asked>>

\* One pass of gen_pads' loop: parse_line returns and the pads are appended
GenPadsIterate ==
    /\ pc = "running"
    /\ idx < Len(io_lines)
    /\ \E answers \in AnswerSeqs :
         LET line == io_lines[idx + 1]
             r == ParseLine(line, known_substitutions, answers)
             log == [i \in DOMAIN r.prompts |->
                       [at |-> idx + 1, token |-> r.prompts[i].token,
                        answer |-> r.prompts[i].answer,
                        prompt |-> r.prompts[i].prompt]]
         IN  /\ ~r.raised
             /\ known_substitutions' = r.subs
             /\ pad_lines' = AppendPads(pad_lines, r.is_output, r.wire_count, r.bus_name)
             /\ descs' = Append(descs, [line |-> line, is_output |-> r.is_output,
                                        wire_count |-> r.wire_count,
                                        name |-> r.bus_name,
                                        first |-> Len(pad_lines)])
             /\ prompts' = prompts \o log
             /\ asked' = [t \in RangeTokenTexts |-> asked[t] + Count(r.prompts, t)]
    /\ idx' = idx + 1
    /\ UNCHANGED <<pc, io_lines, err, calls>>

\* One pass of gen_pads' loop in which parse_line raises ValueError: the
\* exception leaves gen_pads, nothing is returned
GenPadsRaise ==
    /\ pc = "running"
    /\ idx < Len(io_lines)
    /\ \E answers \in AnswerSeqs :
         LET line == io_lines[idx + 1]
             r == ParseLine(line, known_substitutions, answers)
             log == [i \in DOMAIN r.prompts |->
                       [at |-> idx + 1, token |-> r.prompts[i].token,
                        answer |-> r.prompts[i].answer,
                        prompt |-> r.prompts[i].prompt]]
         IN  /\ r.raised
             /\ known_substitutions' = r.subs
             /\ prompts' = prompts \o log
             /\ asked' = [t \in RangeTokenTexts |-> asked[t] + Count(r.prompts, t)]
             /\ err' = r.err
    /\ pc' = "raised"
    /\ UNCHANGED <<io_lines, idx, pad_lines, descs, calls>>

\* return pad_lines
GenPadsReturn ==
    /\ pc = "running"
    /\ idx = Len(io_lines)
    /\ pc' = "returned"
    /\ UNCHANGED <<known_substitutions, io_lines, idx, pad_lines, descs, prompts,
                   asked, err, calls>>

\* The caller is done with the list gen_pads returned, or with the ValueError
\* it raised: the locals of the call are gone, the module's cache stays
CallerContinues ==
    /\ pc \in {"returned", "raised"}
    /\ pc' = "loaded"
    /\ io_lines' = << >>
    /\ idx' = 0
    /\ pad_lines' = << >>
    /\ descs' = << >>
    /\ prompts' = << >>
    /\ err' = ""
    /\ UNCHANGED <<known_substitutions, asked, calls>>

Next ==
    GenPadsCall \/ GenPadsIterate \/ GenPadsRaise \/ GenPadsReturn \/ CallerContinues

Spec == Init /\ [][Next]_vars

(***************************************************************************)
(* Reading the run back: what each descriptor emitted, what a pad line     *)
(* says, and what the specification expects of a line.                     *)
(***************************************************************************)
UnparsableOf == [l \in Lines |-> Unparsable(l)]

RangeTokensOf == [l \in Lines |-> RangeTokens(l)]

\* The pad lines of descriptor j are pad_lines[FirstOf(j)+1 .. LastOf(j)]
FirstOf(j) == descs[j].first

LastOf(j) == IF j < Len(descs) THEN descs[j + 1].first ELSE Len(pad_lines)

\* The pin index written in a pad line: the digits between "p" and "("
PinOf(padline) ==
    LET rest == SubSeq(padline, 9, Len(padline))
    IN  ParseInt(SubSeq(rest, 1, FieldLen(rest, "("))).val

\* The token that decides wire_count: the last one to reach the '[' branch
HasRange(line) == RangeTokensOf[line] # << >>

Deciding(line) == RangeTokensOf[line][Len(RangeTokensOf[line])]

IsUnparsable(t) ==
    Len(RangeParts[t]) = 2 /\ ~(RangeInts[t][1].ok /\ RangeInts[t][2].ok)

IsIntRange(t) ==
    Len(RangeParts[t]) = 2 /\ RangeInts[t][1].ok /\ RangeInts[t][2].ok

IsBlank == [l \in Lines |-> Strip(l) = ""]

\* The tokens the specification reads as the input keyword
HasInput == [t \in AllTokens |-> Contains(t, "input")]

\* The direction the specification gives a line
ExpectedDirection ==
    [l \in Lines |->
        LET toks == SelectSeq(TokensOf[l], LAMBDA t : ~IsTypeStr[t])
        IN  IF \E i \in DOMAIN toks : HasOutput[toks[i]] THEN "output"
            ELSE IF \E i \in DOMAIN toks : HasInput[toks[i]] THEN "input"
            ELSE "inout"]

\* The name the specification gives a line
ExpectedName ==
    [l \in Lines |->
        LET toks == SelectSeq(TokensOf[l],
                        LAMBDA t : /\ ~IsTypeStr[t] /\ ~HasOutput[t]
                                   /\ ~HasInput[t] /\ ~HasBracket[t])
        IN  IF toks = << >> THEN "none" ELSE FilterName(toks[Len(toks)])]

(***************************************************************************)
(* Claims                                                                  *)
(***************************************************************************)

\* C1: the i-th pad line emitted by a gen_pads call (zero-based) carries pin
\* index i: the pin indices read back from the emitted text are 0, 1, 2, ...
\* with no gap and no repeat, whatever descriptors produced the lines.
C1_PinsContiguous ==
    \A i \in DOMAIN pad_lines : PinOf(pad_lines[i]) = i - 1

\* C1 witness: a call has returned at least three pad lines that come from a
\* single-wire descriptor and from a multi-bit one.
C1_Witness ==
    /\ pc = "returned"
    /\ Len(pad_lines) >= 3
    /\ \E j, k \in DOMAIN descs :
          descs[j].wire_count = 1 /\ descs[k].wire_count > 1

\* C2: a descriptor with wire_count > 1 emits wire_count lines, and the line
\* of every bus index k, k = 0 included, carries [k] on its internal signal
\* and on its PAD reference.
C2_EveryBitSuffixed ==
    \A j \in DOMAIN descs :
        descs[j].wire_count > 1 =>
            /\ LastOf(j) - FirstOf(j) = descs[j].wire_count
            /\ \A k \in 0..(descs[j].wire_count - 1) :
                  LET l == pad_lines[FirstOf(j) + k + 1]
                      sig == descs[j].name
                                \o (IF descs[j].is_output THEN "_o" ELSE "_i")
                  IN  /\ Contains(l, "(" \o sig \o "[" \o Str(k) \o "])")
                      /\ Contains(l, ".PAD(" \o descs[j].name
                                        \o "[" \o Str(k) \o "])")

\* C3 as stated: over the whole run input() is invoked at most once for each
\* distinct range-token text.
C3_AskedAtMostOnce ==
    \A t \in RangeTokenTexts : asked[t] <= 1

\* C3 amended: once a token text has an entry in the cache (the collaborator
\* answered it with an integer), no later step invokes input() for that text.
C3_NoPromptOnceCached ==
    [][\A t \in RangeTokenTexts :
          t \in DOMAIN known_substitutions => asked'[t] = asked[t]]_vars

\* C3 witness: a line whose unparsable token was already cached has been
\* parsed without a prompt, the token having been asked exactly once.
C3_Witness ==
    \E j \in DOMAIN descs :
        /\ UnparsableOf[descs[j].line] # << >>
        /\ LET t == UnparsableOf[descs[j].line][1]
           IN  t \in DOMAIN known_substitutions /\ asked[t] = 1
        /\ \A i \in DOMAIN prompts : prompts[i].at # j

\* C4: a descriptor whose width comes from an integer range [N:M] has
\* N >= M and wire_count = N - M + 1, and emits at least one pad: a range
\* with N < M makes parse_line fail, so no descriptor exists for it.
C4_ReversedRangeFails ==
    \A j \in DOMAIN descs :
        (HasRange(descs[j].line) /\ IsIntRange(Deciding(descs[j].line))) =>
            LET N == RangeInts[Deciding(descs[j].line)][1].val
                M == RangeInts[Deciding(descs[j].line)][2].val
            IN  /\ N >= M
                /\ descs[j].wire_count = N - M + 1
                /\ LastOf(j) > FirstOf(j)

\* C5: direction is output, input or inout as the tokens of a (non-blank)
\* line say, and a line with no direction keyword yields neither an
\* input-only nor an output-only pad.
C5_ThreeWayDirection ==
    \A j \in {i \in DOMAIN descs : ~IsBlank[descs[i].line]} :
        LET want == ExpectedDirection[descs[j].line]
            pads == {pad_lines[i] : i \in (FirstOf(j) + 1)..LastOf(j)}
        IN  /\ want = "output" =>
                  descs[j].is_output /\ \A l \in pads : SubSeq(l, 1, 6) = "PADOUT"
            /\ want = "input" =>
                  ~descs[j].is_output /\ \A l \in pads : SubSeq(l, 1, 6) = "PADIN "
            /\ want = "inout" =>
                  \A l \in pads : SubSeq(l, 1, 6) \notin {"PADIN ", "PADOUT"}

\* C6: no blank line reaches parse_line, and no pad line is emitted for one.
C6_BlankLinesSkipped ==
    /\ \A j \in DOMAIN descs : ~IsBlank[descs[j].line]
    /\ \A j \in DOMAIN descs : IsBlank[descs[j].line] => LastOf(j) = FirstOf(j)

\* C7: the name parse_line returns for a (non-blank) line is the filtering of the last token that
\* is no type keyword and contains none of "output", "input", "["; "none"
\* when there is no such token.
C7_NameIsLastPlainToken ==
    \A j \in {i \in DOMAIN descs : ~IsBlank[descs[i].line]} : descs[j].name = ExpectedName[descs[j].line]

\* C8: each inout descriptor (of a non-blank line) is put exactly one input-enable query, every
\* pad line it emits has an IEN field, and input and output descriptors are
\* put no such query.
C8_InoutEnableAskedOnce ==
    \A j \in {i \in DOMAIN descs : ~IsBlank[descs[i].line]} :
        LET queries == {i \in DOMAIN prompts :
                           /\ prompts[i].at = j
                           /\ ~Contains(prompts[i].prompt, "How many wires")}
            pads == {pad_lines[i] : i \in (FirstOf(j) + 1)..LastOf(j)}
        IN  IF ExpectedDirection[descs[j].line] = "inout"
            THEN /\ Cardinality(queries) = 1
                 /\ \A l \in pads : Contains(l, ".IEN(")
            ELSE queries = {}

\* C9: a prompt answered with a non-integer ends the call with the error:
\* it is the last thing that happened, the line it belongs to returned no
\* descriptor and emitted no pad, and the cache holds no entry for the token.
C9_BadAnswerRaises ==
    \A i \in DOMAIN prompts :
        ~AnswerInts[prompts[i].answer].ok =>
            /\ pc = "raised"
            /\ err = "answer"
            /\ i = Len(prompts)
            /\ prompts[i].token \notin DOMAIN known_substitutions
            /\ Len(descs) = prompts[i].at - 1
            /\ idx = prompts[i].at - 1

\* C9 witness: a call has raised on a non-integer answer.
C9_Witness ==
    /\ pc = "raised"
    /\ err = "answer"
    /\ prompts # << >>
    /\ ~AnswerInts[prompts[Len(prompts)].answer].ok

====
